---- MODULE Spec2Model ----
(***************************************************************************)
(* Session / credential lifecycle of voir-backend: loginUser, logoutUser,  *)
(* refreshAccessToken and generateAccessAndRefreshTokens of                *)
(* src/src/controllers/user.controller.js, and the verifyJWT middleware of *)
(* src/src/middlewares/auth.middleware.js.                                 *)
(*                                                                         *)
(* Every handler is an async function: it runs without interruption up to  *)
(* its next `await` of a datastore call, and other requests may run in     *)
(* between.  Each action below is one such uninterrupted stretch: the     *)
(* datastore call that was awaited together with the synchronous code that *)
(* follows it.                                                            *)
(***************************************************************************)
EXTENDS Integers, FiniteSets, TLC

\* ------------------------------------------------------------------ bounds
\* Requests that may be in flight at the same time.
NReq == 2
\* The clock runs from 0 to MaxTime.
MaxTime == 3
\* Requests that arrive in a run.
MaxRequests == 3
\* Lifetimes (ACCESS_TOKEN_EXPIRY, REFRESH_TOKEN_EXPIRY of the environment).
AccessTtl == 3
RefreshTtl == 4

ReqIds == 1..NReq

\* ------------------------------------------------------------------ values
\* Principals of the datastore, and the subject of tokens whose principal has
\* been removed from it.
Stored == {"u1"}
Gone == "gone"

\* Tokens are records; the values below stand for what is no issued token.
NoToken == [kind |-> "none", sub |-> "none", iat |-> 0, exp |-> 0]
Malformed == [kind |-> "malformed", sub |-> "none", iat |-> 0, exp |-> 0]
Forged == [kind |-> "forged", sub |-> "u1", iat |-> 0, exp |-> 0]

NoUser == [id |-> "none"]
NoCred == [username |-> "none", email |-> "none", password |-> "none"]

\* What a login request may carry ("none": the field is absent).
Credentials ==
    {[username |-> "none", email |-> "none", password |-> "pw_u1"],
     [username |-> "nobody", email |-> "none", password |-> "pw_u1"],
     [username |-> "u1", email |-> "none", password |-> "pw_u1"],
     [username |-> "u1", email |-> "none", password |-> "wrong"],
     [username |-> "none", email |-> "u1@mail", password |-> "pw_u1"]}
NoGen == [accessToken |-> NoToken, refreshToken |-> NoToken]

\* Password Hasher (bcrypt in user.model.js): a digest of the plaintext.
Hash(p) == <<"bcrypt", p>>

\* user.isPasswordCorrect(password): bcrypt.compare against the stored digest.
isPasswordCorrect(user, password) == Hash(password) = user.password

\* user.generateAccessToken(): {subject, issuedAt, expiresAt} signed with the
\* access secret.
generateAccessToken(user, t) ==
    [kind |-> "access", sub |-> user.id, iat |-> t, exp |-> t + AccessTtl]

\* user.generateRefreshToken(): the same under the refresh secret and lifetime.
generateRefreshToken(user, t) ==
    [kind |-> "refresh", sub |-> user.id, iat |-> t, exp |-> t + RefreshTtl]

\* Tokens signed before the first state: those of a principal that is no
\* longer in the datastore, and those of an old session of u1, expired since.
OldTokens ==
    {[kind |-> "access", sub |-> Gone, iat |-> 0, exp |-> AccessTtl],
     [kind |-> "refresh", sub |-> Gone, iat |-> 0, exp |-> RefreshTtl],
     [kind |-> "access", sub |-> "u1", iat |-> 0 - AccessTtl, exp |-> 0],
     [kind |-> "refresh", sub |-> "u1", iat |-> 0 - RefreshTtl, exp |-> 0]}

\* The user document as created by registerUser: the password is stored as its
\* digest and there is no refresh token yet.
NewUser(id) ==
    [id |-> id, username |-> id, email |-> "u1@mail",
     password |-> Hash("pw_u1"), refreshToken |-> NoToken]

VARIABLES
    users,      \* the datastore: principal id -> user document
    now,        \* the clock
    delivered,  \* tokens that clients hold: those sent in a response
    cleared,    \* refresh tokens that a logout removed from a slot
    rotations,  \* <<presented, stored>> of every refresh answered with a 200
    reqs,       \* the requests in flight: slot -> handler's position and locals
    arrivals,   \* the number of requests that have arrived
    last        \* the request that the step just taken answered, if it did

vars == <<users, now, delivered, cleared, rotations, reqs, arrivals, last>>

\* ------------------------------------------------------------------ responses
\* A response: status, message, the tokens of the body and of the cookies, and
\* the user of the body.
Response(status, message, at, rt, cat, crt, user) ==
    [status |-> status, message |-> message, accessToken |-> at,
     refreshToken |-> rt, cookieAccess |-> cat, cookieRefresh |-> crt,
     user |-> user]

NoResp == Response(0, "none", NoToken, NoToken, NoToken, NoToken, NoUser)

\* throw new ApiError(status, message), as the error handler sends it: the
\* status and the message, no cookie and no data.
ApiError(status, message) ==
    Response(status, message, NoToken, NoToken, NoToken, NoToken, NoUser)

IdleReq ==
    [op |-> "none", pc |-> "idle", tok |-> NoToken, when |-> "none",
     cred |-> NoCred, uid |-> "none", gen |-> NoGen, saved |-> NoToken,
     reqUser |-> NoUser, ran |-> FALSE, resp |-> NoResp]

\* When a token is presented, relative to its expiresAt instant.
When(tok, t) ==
    IF t < tok.exp THEN "before" ELSE IF t = tok.exp THEN "at" ELSE "after"

\* A new request takes the first slot that has no request in flight.
FreeSlot(r) == reqs[r].pc = "idle"

Free(r) ==
    /\ arrivals < MaxRequests
    /\ FreeSlot(r)
    /\ \A s \in ReqIds : s < r => ~FreeSlot(s)

\* The handler of q ends with response rsp; its locals are dropped.
Finish(q, rsp) ==
    [q EXCEPT !.pc = "done", !.resp = rsp, !.gen = NoGen]

\* ------------------------------------------------------------------ datastore
\* User.findById(id): the document, or NoUser when there is none.
findById(id) == IF id \in Stored THEN users[id] ELSE NoUser

\* A slip: the projection is left out and the whole document is loaded.
SelectPublic_WholeDocument(user) == user

\* .select("-password -refreshToken")
SelectPublic(user) ==
    IF user = NoUser THEN NoUser
    ELSE [id |-> user.id, username |-> user.username, email |-> user.email]

\* ------------------------------------------------------------------ jsonwebtoken
\* A slip: verification with ignoreExpiration.
JwtVerify_IgnoreExpiration(token, kind, t) ==
    IF token.kind = "malformed"
    THEN [ok |-> FALSE, sub |-> "none", message |-> "jwt malformed"]
    ELSE IF token.kind # kind
    THEN [ok |-> FALSE, sub |-> "none", message |-> "invalid signature"]
    ELSE [ok |-> TRUE, sub |-> token.sub, message |-> "none"]

\* jwt.verify(token, secret) at time t: the payload, or the error it throws.
\* kind is the secret's: a token signed with another key has a wrong signature.
JwtVerify(token, kind, t) ==
    IF token.kind = "malformed"
    THEN [ok |-> FALSE, sub |-> "none", message |-> "jwt malformed"]
    ELSE IF token.kind # kind
    THEN [ok |-> FALSE, sub |-> "none", message |-> "invalid signature"]
    ELSE IF t >= token.exp
    THEN [ok |-> FALSE, sub |-> "none", message |-> "jwt expired"]
    ELSE [ok |-> TRUE, sub |-> token.sub, message |-> "none"]

\* What a client can present where a token of this kind is expected: nothing,
\* garbage, a forgery, an old token, or any token a response delivered.
Presentable(kind) ==
    {NoToken, Malformed, Forged}
        \cup {t \in OldTokens \cup delivered : t.kind = kind}

Init ==
    /\ users = [id \in Stored |-> NewUser(id)]
    /\ now = 0
    /\ delivered = {}
    /\ cleared = {}
    /\ rotations = {}
    /\ reqs = [r \in ReqIds |-> IdleReq]
    /\ last = IdleReq
    /\ arrivals = 0

\* The tokens a response hands to the client.
TokensOf(rsp) ==
    {rsp.accessToken, rsp.refreshToken, rsp.cookieAccess, rsp.cookieRefresh}
        \ {NoToken, Malformed}

\* The request q of slot r ends with response rsp, which reaches the client.
Respond(r, q, rsp) ==
    /\ reqs' = [reqs EXCEPT ![r] = IdleReq]
    /\ last' = Finish(q, rsp)
    /\ delivered' = delivered \cup TokensOf(rsp)
    /\ rotations' = IF q.op = "refresh" /\ rsp.status = 200
                    THEN rotations \cup {<<q.tok, q.saved>>}
                    ELSE rotations

\* The request of slot r goes on as q, up to its next await; nothing is
\* answered.
Continue(r, q) ==
    /\ reqs' = [reqs EXCEPT ![r] = q]
    /\ last' = IdleReq
    /\ UNCHANGED <<delivered, rotations>>

\* Time passes.
Tick ==
    /\ now < MaxTime
    /\ now' = now + 1
    /\ last' = IdleReq
    /\ UNCHANGED <<users, delivered, cleared, rotations, reqs, arrivals>>

\* ------------------------------------------------------------------ generateAccessAndRefreshTokens
\* The catch of generateAccessAndRefreshTokens: whatever failed, a 500.
GenerateError ==
    ApiError(500, "Something went wrong while generating access and refresh tokens")

\* A slip: the token is never put in the document that is saved.
StoreRefreshToken_Skipped(user, refreshToken) == user

\* user.refreshToken = refreshToken (saved by user.save).
StoreRefreshToken(user, refreshToken) ==
    [user EXCEPT !.refreshToken = refreshToken]

\* { accessToken, refreshToken } as generated for user at time t.
GenerateTokens(user, t) ==
    [accessToken |-> generateAccessToken(user, t),
     refreshToken |-> generateRefreshToken(user, t)]

\* The catch of refreshAccessToken: a 401 with the message of what was thrown.
RefreshCatch(err) == ApiError(401, err.message)

\* The 200 of loginUser: both tokens in the cookies and in the body.
LoginResponse(gen, user) ==
    Response(200, "User logged in successfully!",
             gen.accessToken, gen.refreshToken,
             gen.accessToken, gen.refreshToken, user)

\* A slip: loginUser goes on with the pair although generating it failed.
CallerError_Swallowed(q, err) ==
    IF q.op = "refresh" THEN RefreshCatch(err)
    ELSE LoginResponse(q.gen, SelectPublic(findById(q.uid)))

\* What the caller of generateAccessAndRefreshTokens does with its 500:
\* loginUser lets it through, refreshAccessToken catches it.
CallerError(q, err) == IF q.op = "refresh" THEN RefreshCatch(err) ELSE err

\* await User.findById(userId), then the two tokens are signed.  Each call
\* signs at an instant of its own.
GenFind(r) ==
    LET q == reqs[r]
        user == findById(q.uid)
    IN /\ q.pc = "gen_find"
       /\ now < MaxTime
       /\ IF user = NoUser
          THEN /\ Respond(r, q, CallerError(q, GenerateError))
               /\ UNCHANGED now
          ELSE /\ Continue(r, [q EXCEPT !.pc = "gen_save",
                                        !.gen = GenerateTokens(user, now)])
               /\ now' = now + 1
       /\ UNCHANGED <<users, cleared, arrivals>>

\* The new pair as refreshAccessToken sends it: it reads the pair's
\* `newRefreshToken`, a property the pair does not have, so the body carries
\* no refresh token and the cookie carries the text "undefined".
RefreshResponse(gen) ==
    Response(200, "Access token refreshed successfully",
             gen.accessToken, NoToken, gen.accessToken, Malformed, NoUser)

\* await user.save(): the datastore writes the slot, or fails.  On success
\* refreshAccessToken responds at once, loginUser goes on to load the user.
GenSave(r) ==
    LET q == reqs[r]
        q2 == [q EXCEPT !.saved = q.gen.refreshToken]
    IN /\ q.pc = "gen_save"
       /\ \E stored \in BOOLEAN :
            IF stored
            THEN /\ users' = [users EXCEPT ![q.uid] =
                       StoreRefreshToken(@, q.gen.refreshToken)]
                 /\ IF q.op = "refresh"
                    THEN Respond(r, q2, RefreshResponse(q.gen))
                    ELSE Continue(r, [q2 EXCEPT !.pc = "login_select"])
            ELSE /\ Respond(r, q, CallerError(q, GenerateError))
                 /\ UNCHANGED users
       /\ UNCHANGED <<now, cleared, arrivals>>

\* ------------------------------------------------------------------ loginUser
\* User.findOne({ $or: [{ username }, { email }] }): the users it may return.
FindByLogin(cred) ==
    {id \in Stored :
        \/ cred.username # "none" /\ users[id].username = cred.username
        \/ cred.email # "none" /\ users[id].email = cred.email}

\* A slip: the result of the password check is not looked at.
PasswordRejected_Never(user, password) == FALSE

\* if (!isPasswordValid) throw
PasswordRejected(user, password) == ~isPasswordCorrect(user, password)

\* The request arrives; without username and email it is a 400.
LoginStart(r, cred) ==
    LET q == [IdleReq EXCEPT !.op = "login", !.cred = cred]
    IN /\ Free(r)
       /\ IF cred.username = "none" /\ cred.email = "none"
          THEN Respond(r, q, ApiError(400, "Enter either username or email"))
          ELSE Continue(r, [q EXCEPT !.pc = "login_find"])
       /\ arrivals' = arrivals + 1
       /\ UNCHANGED <<users, now, cleared>>

\* await User.findOne(...), then the password check; the credentials are not
\* used after it.
LoginFind(r) ==
    LET q == reqs[r]
        found == FindByLogin(q.cred)
    IN /\ q.pc = "login_find"
       /\ IF found = {}
          THEN Respond(r, q, ApiError(404, "User not found!"))
          ELSE \E id \in found :
                 IF PasswordRejected(users[id], q.cred.password)
                 THEN Respond(r, [q EXCEPT !.uid = id],
                              ApiError(401, "Invalid user credentials"))
                 ELSE Continue(r, [q EXCEPT !.pc = "gen_find", !.uid = id,
                                            !.cred = NoCred])
       /\ UNCHANGED <<users, now, cleared, arrivals>>

\* await User.findById(user._id).select(...), then the response.
LoginSelect(r) ==
    LET q == reqs[r]
    IN /\ q.pc = "login_select"
       /\ Respond(r, q, LoginResponse(q.gen, SelectPublic(findById(q.uid))))
       /\ UNCHANGED <<users, now, cleared, arrivals>>

\* ------------------------------------------------------------------ refreshAccessToken
\* A slip: the presented token is not compared with the slot.
SlotMatches_Always(incoming, user) == TRUE

\* incomingRefreshToken !== user?.refreshToken is what rejects the request.
SlotMatches(incoming, user) == incoming = user.refreshToken

\* The request arrives with the token of its cookie or body; the token is
\* verified before the first await.  A missing token is thrown outside the
\* try, a jwt.verify error inside it.
RefreshStart(r, tok) ==
    LET q == [IdleReq EXCEPT !.op = "refresh", !.tok = tok,
                             !.when = When(tok, now)]
        decoded == JwtVerify(tok, "refresh", now)
    IN /\ Free(r)
       /\ IF tok = NoToken
          THEN Respond(r, q, ApiError(401, "Unauthorized request"))
          ELSE IF ~decoded.ok
          THEN Respond(r, q, RefreshCatch(decoded))
          ELSE Continue(r, [q EXCEPT !.pc = "refresh_find", !.uid = decoded.sub])
       /\ arrivals' = arrivals + 1
       /\ UNCHANGED <<users, now, cleared>>

\* await User.findById(decodedToken?._id), then the comparison with the slot.
RefreshFind(r) ==
    LET q == reqs[r]
        user == findById(q.uid)
    IN /\ q.pc = "refresh_find"
       /\ IF user = NoUser
          THEN Respond(r, q, RefreshCatch(ApiError(401, "Unauthorized request")))
          ELSE IF ~SlotMatches(q.tok, user)
          THEN Respond(r, q,
                   RefreshCatch(ApiError(401, "Refresh token is expired or used")))
          ELSE Continue(r, [q EXCEPT !.pc = "gen_find"])
       /\ UNCHANGED <<users, now, cleared, arrivals>>

\* ------------------------------------------------------------------ verifyJWT
\* The catch of verifyJWT: a 401 with the message of what was thrown.
VerifyCatch(err) == ApiError(401, err.message)

\* A request for logoutUser, which is behind verifyJWT, arrives with the token
\* of its cookie or Authorization header; the token is verified before the
\* first await.
VerifyStart(r, tok) ==
    LET q == [IdleReq EXCEPT !.op = "logout", !.tok = tok,
                             !.when = When(tok, now)]
        decoded == JwtVerify(tok, "access", now)
    IN /\ Free(r)
       /\ IF tok = NoToken
          THEN Respond(r, q, VerifyCatch(ApiError(401, "Unauthorized request")))
          ELSE IF ~decoded.ok
          THEN Respond(r, q, VerifyCatch(decoded))
          ELSE Continue(r, [q EXCEPT !.pc = "verify_find", !.uid = decoded.sub])
       /\ arrivals' = arrivals + 1
       /\ UNCHANGED <<users, now, cleared>>

\* await User.findById(...).select(...); then req.user = user and next(),
\* which runs logoutUser up to its first await.
VerifyFind(r) ==
    LET q == reqs[r]
        user == SelectPublic(findById(q.uid))
        q2 == [q EXCEPT !.reqUser = user, !.ran = TRUE]
    IN /\ q.pc = "verify_find"
       /\ IF user = NoUser
          THEN Respond(r, q, VerifyCatch(ApiError(401, "Invalid access token")))
          ELSE Continue(r, [q2 EXCEPT !.pc = "logout_update"])
       /\ UNCHANGED <<users, now, cleared, arrivals>>

\* ------------------------------------------------------------------ logoutUser
\* A slip: the update unsets nothing.
UnsetRefreshToken_Nothing(user) == user

\* $unset: { refreshToken: 1 }
UnsetRefreshToken(user) == [user EXCEPT !.refreshToken = NoToken]

\* The 200 of logoutUser: both cookies cleared.
LogoutResponse ==
    Response(200, "User logged out successfully",
             NoToken, NoToken, NoToken, NoToken, NoUser)

\* await User.findByIdAndUpdate(req.user._id, ...), then the response.
LogoutUpdate(r) ==
    LET q == reqs[r]
        id == q.reqUser.id
    IN /\ q.pc = "logout_update"
       /\ users' = [users EXCEPT ![id] = UnsetRefreshToken(@)]
       /\ cleared' = cleared \cup ({users[id].refreshToken} \ {NoToken})
       /\ Respond(r, q, LogoutResponse)
       /\ UNCHANGED <<now, arrivals>>

Next ==
    \/ Tick
    \/ \E r \in ReqIds : GenFind(r)
    \/ \E r \in ReqIds : GenSave(r)
    \/ \E r \in ReqIds : \E cred \in Credentials : LoginStart(r, cred)
    \/ \E r \in ReqIds : LoginFind(r)
    \/ \E r \in ReqIds : LoginSelect(r)
    \/ \E r \in ReqIds : \E tok \in Presentable("refresh") : RefreshStart(r, tok)
    \/ \E r \in ReqIds : RefreshFind(r)
    \/ \E r \in ReqIds : \E tok \in Presentable("access") : VerifyStart(r, tok)
    \/ \E r \in ReqIds : VerifyFind(r)
    \/ \E r \in ReqIds : LogoutUpdate(r)

Spec == Init /\ [][Next]_vars

\* The same handlers when requests are served one at a time: a request
\* arrives only when no other is in flight.
Quiet == \A r \in ReqIds : reqs[r].pc = "idle"

SerialNext ==
    \/ Tick
    \/ \E r \in ReqIds : GenFind(r)
    \/ \E r \in ReqIds : GenSave(r)
    \/ \E r \in ReqIds : \E cred \in Credentials : Quiet /\ LoginStart(r, cred)
    \/ \E r \in ReqIds : LoginFind(r)
    \/ \E r \in ReqIds : LoginSelect(r)
    \/ \E r \in ReqIds : \E tok \in Presentable("refresh") :
          Quiet /\ RefreshStart(r, tok)
    \/ \E r \in ReqIds : RefreshFind(r)
    \/ \E r \in ReqIds : \E tok \in Presentable("access") :
          Quiet /\ VerifyStart(r, tok)
    \/ \E r \in ReqIds : VerifyFind(r)
    \/ \E r \in ReqIds : LogoutUpdate(r)

SerialSpec == Init /\ [][SerialNext]_vars
\* ------------------------------------------------------------------ claims
\* The stored principal of the model, and its refresh slot.
Slot == users["u1"].refreshToken

\* The step just taken answered a request for op with this status.
Answered(op, status) ==
    last.pc = "done" /\ last.op = op /\ last.resp.status = status

\* C1: of the refreshAccessToken requests that present the same refresh token,
\* at most one is answered with a 200: a presented token is rotated once, and
\* the other request fails.
C1_OneRotationPerToken ==
    \A a \in rotations : \A b \in rotations : a[1] = b[1] => a[2] = b[2]

\* C2: a refresh token that was rotated is never again the value of the slot
\* (presenting it again is a reuse), and the refresh token that a successful
\* refreshAccessToken hands to its caller, in the body and in the cookie, is
\* the one it stored in the slot, so that the caller can present it next.
C2_CallerReceivesStoredToken ==
    /\ \A a \in rotations : Slot # a[1]
    /\ Answered("refresh", 200) =>
          /\ last.resp.refreshToken = last.saved
          /\ last.resp.cookieRefresh = last.saved

\* A login request whose identifier and password match the stored principal.
Matching(cred) ==
    /\ cred.username = "u1" \/ cred.email = "u1@mail"
    /\ cred.password = "pw_u1"

AllReqs == {reqs[r] : r \in ReqIds} \cup {last}

\* A login request that names the stored principal with a wrong password.
WrongPassword(cred) ==
    /\ cred.username = "u1" \/ cred.email = "u1@mail"
    /\ cred.password # "pw_u1"

\* The step taken is one of the request in slot r.
Stepped(r) == reqs'[r] # reqs[r]

\* C4: a loginUser request that names an existing principal with a wrong
\* password is answered, once the principal is found, with 401 "Invalid user
\* credentials" and no tokens; it has written nothing, and the step that
\* answers it leaves every refresh slot as it was.
C4_WrongPasswordKeepsSlot ==
    [][\A r \in ReqIds :
          (/\ reqs[r].pc = "login_find"
           /\ WrongPassword(reqs[r].cred)
           /\ Stepped(r)) =>
              /\ last'.pc = "done"
              /\ last'.op = "login"
              /\ last'.cred = reqs[r].cred
              /\ last'.resp = ApiError(401, "Invalid user credentials")
              /\ last'.saved = NoToken
              /\ users' = users
              /\ delivered' = delivered]_vars

\* C4 witness: a login with a wrong password is rejected while the slot holds
\* the token of an established session.
C4_Witness ==
    /\ Answered("login", 401)
    /\ WrongPassword(last.cred)
    /\ Slot.kind = "refresh"

\* C5: the update of logoutUser leaves the principal's refresh slot empty,
\* whatever it held, and is answered with a 200; and a refreshAccessToken that
\* compares, after a logout, the token the logout removed is answered with a
\* 401 and leaves the slot as it is.
C5_LogoutThenRefreshFails ==
    [][/\ \A r \in ReqIds :
            (reqs[r].pc = "logout_update" /\ Stepped(r)) =>
                /\ users'[reqs[r].reqUser.id].refreshToken = NoToken
                /\ last'.resp = LogoutResponse
       /\ \A r \in ReqIds :
            (reqs[r].pc = "refresh_find" /\ reqs[r].tok \in cleared /\ Stepped(r)) =>
                /\ last'.op = "refresh"
                /\ last'.tok = reqs[r].tok
                /\ last'.resp.status = 401
                /\ TokensOf(last'.resp) = {}
                /\ users' = users]_vars

\* C5 witness: after a logout, a refresh with the token the logout removed has
\* just been rejected and the slot is empty.
C5_Witness ==
    /\ Answered("refresh", 401)
    /\ last.tok \in cleared
    /\ last.when = "before"
    /\ Slot = NoToken

\* C6: when the save of the new refresh token fails in loginUser, the request
\* is answered with a 500 that carries no token, in the body or in a cookie.
C6_PersistFailureNoTokens ==
    [][\A r \in ReqIds :
          (/\ reqs[r].op = "login"
           /\ reqs[r].pc = "gen_save"
           /\ Stepped(r)
           /\ users' = users) =>
              /\ last'.op = "login"
              /\ last'.resp.status = 500
              /\ last'.resp = ApiError(500, last'.resp.message)
              /\ delivered' = delivered]_vars

\* C6 witness: a login has just been answered with a 500.
C6_Witness == Answered("login", 500) /\ last.saved = NoToken

\* C7: logoutUser, which is behind verifyJWT, has been invoked for a request
\* exactly when verifyJWT succeeded for it, and then req.user is the principal
\* of the token, loaded without the password hash and the refresh slot; when
\* verifyJWT fails, the answer is a 401, req.user is not set and the handler
\* has not run.
C7_HandlerBehindGate ==
    \A q \in AllReqs :
        q.op = "logout" =>
            /\ q.ran <=> (q.pc = "logout_update"
                            \/ (q.pc = "done" /\ q.resp.status = 200))
            /\ q.ran =>
                  /\ q.tok.kind = "access"
                  /\ q.when = "before"
                  /\ q.reqUser.id = q.tok.sub
                  /\ q.reqUser.id \in Stored
                  /\ DOMAIN q.reqUser \cap {"password", "refreshToken"} = {}
            /\ ~q.ran => q.reqUser = NoUser
            /\ (q.pc = "done" /\ ~q.ran) => q.resp.status = 401

\* C7 witness: verifyJWT has just rejected a correctly signed, unexpired token
\* of a principal that is not in the datastore; the handler did not run.
C7_Witness ==
    /\ Answered("logout", 401)
    /\ last.tok.kind = "access"
    /\ last.tok.sub = Gone
    /\ last.when = "before"
    /\ ~last.ran

\* C8: whatever makes verifyJWT fail, the client sees the same answer: the 401
\* with the message "Unauthorized request" that a missing token gets.
C8_UniformFailure ==
    (last.pc = "done" /\ last.op = "logout" /\ last.resp.status # 200) =>
        last.resp = ApiError(401, "Unauthorized request")

\* C9: a signed access token presented to verifyJWT after its expiresAt
\* instant is rejected with a 401 and the handler does not run; one presented
\* before that instant, for a principal in the datastore, is accepted (the
\* handler runs and answers 200), whatever the refresh slot holds.
C9_AccessTokenExpiry ==
    \A q \in AllReqs :
        (q.op = "logout" /\ q.tok.kind = "access") =>
            /\ q.when = "after" =>
                  q.pc = "done" /\ q.resp.status = 401 /\ ~q.ran
            /\ (q.when = "before" /\ q.tok.sub \in Stored) =>
                  /\ q.pc \in {"verify_find", "logout_update", "done"}
                  /\ q.pc = "done" => (q.ran /\ q.resp.status = 200)

\* C9 witness: a request is accepted with an access token whose refresh token
\* (the one issued with it) had been rotated: the logout removed the token
\* that the rotation stored.
C9_Witness ==
    /\ Answered("logout", 200)
    /\ last.ran
    /\ \E a \in rotations : a[1].iat = last.tok.iat /\ a[2] \in cleared

\* C10: a refreshAccessToken whose token was verified (signed, unexpired) and
\* differs from the principal's refresh slot, an empty slot included, is
\* answered with 401 "Refresh token is expired or used" and no tokens; it
\* has written nothing and its step leaves the slot as it is.
C10_MismatchRejected ==
    [][\A r \in ReqIds :
          (/\ reqs[r].pc = "refresh_find"
           /\ reqs[r].uid \in Stored
           /\ reqs[r].tok # users[reqs[r].uid].refreshToken
           /\ Stepped(r)) =>
              /\ last'.op = "refresh"
              /\ last'.tok = reqs[r].tok
              /\ last'.resp = ApiError(401, "Refresh token is expired or used")
              /\ last'.saved = NoToken
              /\ users' = users
              /\ delivered' = delivered]_vars

\* C10 witness: a refresh has just been rejected as a reuse while the slot
\* holds another refresh token.
C10_Witness ==
    /\ Answered("refresh", 401)
    /\ last.resp.message = "Refresh token is expired or used"
    /\ Slot.kind = "refresh"
    /\ Slot # last.tok

\* C11: when the save of the new refresh token fails in refreshAccessToken,
\* for a token that matched the slot, the request is answered with a 500,
\* not the 401 of a verification or reuse failure, and with no token in the
\* body or in a cookie.
C11_RefreshPersistFailureIs500 ==
    [][\A r \in ReqIds :
          (/\ reqs[r].op = "refresh"
           /\ reqs[r].pc = "gen_save"
           /\ Stepped(r)
           /\ users' = users) =>
              /\ last'.op = "refresh"
              /\ last'.resp.status = 500
              /\ last'.resp = ApiError(500, last'.resp.message)
              /\ delivered' = delivered]_vars

\* C12: once a logout has removed the principal's refresh token, an empty
\* slot stays empty until a login stores a token: the only step that fills an
\* empty slot is the save of a loginUser request, also when a
\* refreshAccessToken that compared its token before the logout is still in
\* flight.
C12_EmptyUntilLogin ==
    [][(cleared # {} /\ Slot = NoToken /\ Slot' # NoToken) =>
          \E r \in ReqIds :
              /\ reqs[r].op = "login"
              /\ reqs[r].pc = "gen_save"
              /\ Stepped(r)]_vars
====
